---- MODULE Spec2Model ----
(***************************************************************************)
(* Starfield.js: the animation engine of src/starfield.js as a state       *)
(* machine.  One instance of Starfield is modelled from the end of its     *)
(* constructor on, whether it returned or threw; the operations are the    *)
(* public methods start, stop, resize and destroy and the frame callback   *)
(* animate.                                                                *)
(*                                                                         *)
(* Numbers.  JavaScript numbers are modelled as exact rationals.  Depths   *)
(* and spread coordinates (x, y, z, pz, trailLength) are integers counting *)
(* 1/Unit of a depth unit; pixel sizes are whole pixels, centerX/centerY   *)
(* count half pixels; multipliers count hundredths; timestamps are whole   *)
(* milliseconds.  Projected screen coordinates are fractions [num, den].   *)
(***************************************************************************)
EXTENDS Integers, Sequences, FiniteSets, TLC

\* ----- bounds -----------------------------------------------------------
MaxTicks == 2           \* frame callbacks executed while running

\* ----- units ------------------------------------------------------------
Unit == 100             \* model units per depth unit
Null == 0               \* rafId === null; frame handles are 1, 2, ...

\* Default options (src/starfield.js 22-67); multipliers in hundredths.
DEFAULTS ==
  [ fullPage |-> TRUE, autostart |-> TRUE, speed |-> 10, trailLength |-> 10,
    mobileSpeedMultiplier |-> 50, desktopSpeedMultiplier |-> 110,
    mobileTrailMultiplier |-> 65, desktopTrailMultiplier |-> 100,
    mobileBreakpoint |-> 900, dprCap |-> 2 ]

\* ----- inputs -----------------------------------------------------------
\* The target element before construction: its inline position style and
\* its computed position; whether the platform has ResizeObserver; whether
\* canvas.getContext("2d") gives a context.
StaticPage ==
  [inline |-> "", computed |-> "static", hasResizeObserver |-> TRUE, context2d |-> TRUE]
InlineStaticPage ==
  [inline |-> "static", computed |-> "static", hasResizeObserver |-> FALSE,
   context2d |-> TRUE]
PositionedPage ==
  [inline |-> "relative", computed |-> "relative", hasResizeObserver |-> TRUE,
   context2d |-> TRUE]
NoContextPage ==
  [inline |-> "", computed |-> "static", hasResizeObserver |-> TRUE, context2d |-> FALSE]

\* The constructions modelled: what the caller passes to new Starfield(o)
\* (the target, fullPage or "unset" when the key is absent, autostart,
\* starCount and speed) and the page it is constructed on.  A target is
\* "body" (document.body, or no target), "element" (another Element, or a
\* selector that matches one), "#missing" (a selector that matches nothing)
\* or "42" (neither an Element nor a string).  The frame loop
\* and the reseed loop treat every star alike and no star reads another,
\* so the pools modelled hold one star.
Constructions ==
  { [o |-> [target |-> "body", fullPage |-> "unset", autostart |-> TRUE,
            starCount |-> 1, speed |-> 10],
     pg |-> StaticPage],
    [o |-> [target |-> "element", fullPage |-> "true", autostart |-> FALSE,
            starCount |-> 1, speed |-> 0],
     pg |-> InlineStaticPage],
    [o |-> [target |-> "element", fullPage |-> "unset", autostart |-> TRUE,
            starCount |-> 1, speed |-> 10],
     pg |-> StaticPage],
    [o |-> [target |-> "element", fullPage |-> "unset", autostart |-> FALSE,
            starCount |-> 1, speed |-> 10],
     pg |-> InlineStaticPage],
    [o |-> [target |-> "body", fullPage |-> "false", autostart |-> TRUE,
            starCount |-> 1, speed |-> 0],
     pg |-> PositionedPage],
    [o |-> [target |-> "#missing", fullPage |-> "unset", autostart |-> TRUE,
            starCount |-> 1, speed |-> 10],
     pg |-> StaticPage],
    [o |-> [target |-> "42", fullPage |-> "false", autostart |-> TRUE,
            starCount |-> 1, speed |-> 10],
     pg |-> StaticPage],
    [o |-> [target |-> "element", fullPage |-> "false", autostart |-> TRUE,
            starCount |-> 1, speed |-> 10],
     pg |-> NoContextPage] }

\* What the platform reports when resize() runs: window.innerWidth and
\* innerHeight, the target's bounding rectangle (in half pixels, it may be
\* fractional), pointer coarseness and devicePixelRatio (in halves).
Envs ==
  { [innerWidth |-> 0, innerHeight |-> 0, rectWidth |-> 0, rectHeight |-> 1,
     coarse |-> FALSE, dpr |-> 2],
    [innerWidth |-> 500, innerHeight |-> 800, rectWidth |-> 1601, rectHeight |-> 1200,
     coarse |-> FALSE, dpr |-> 6],
    [innerWidth |-> 1000, innerHeight |-> 1000, rectWidth |-> 3, rectHeight |-> 2,
     coarse |-> FALSE, dpr |-> 3],
    [innerWidth |-> 1000, innerHeight |-> 1000, rectWidth |-> 1601, rectHeight |-> 1200,
     coarse |-> TRUE, dpr |-> 6] }

\* Timestamp of the first frame and the gaps between consecutive frames (ms).
FirstTimestamps == {0, 16}
Gaps == {16, 5000}

VARIABLES
  options,                \* this.options (merged), fixed after construction
  fullPage,               \* this.fullPage
  stars,                  \* this.stars: sequence of [x, y, z, pz]
  width, height,          \* this.width, this.height (px)
  centerX, centerY,       \* this.centerX, this.centerY (half px)
  maxDepth,               \* this.maxDepth (depth units = px)
  speedMultiplier,        \* this.speedMultiplier (hundredths)
  trailLength,            \* this.trailLength (1/Unit)
  lastTime,               \* this.lastTime (ms; 0 is also "unset")
  running,                \* this.running
  rafId,                  \* this.rafId (Null or a frame handle)
  resizeObserver,         \* this.resizeObserver !== null
  mutatedTargetPosition,  \* this.mutatedTargetPosition
  originalTargetPosition, \* this.originalTargetPosition
  canvas,                 \* the canvas: [width, height, scale, parentNode]
  targetPosition,         \* target.style.position (inline)
  windowListener,         \* onResize subscribed to window "resize"
  pending,                \* platform: handles of scheduled frame callbacks
  now,                    \* platform: timestamp of the last frame run, -1 if none
  device,                 \* platform: the window's size and pointer at the last resize()
  \* history, not program state
  positionBefore,         \* target.style.position before construction
  thrown,                 \* the error the constructor threw, "none" if it returned
  destroyed,              \* destroy() has been called
  lastOp,                 \* the operation that produced this state
  ticks,                  \* frame callbacks executed while running
  fresh,                  \* no frame callback has run since the last start()
  frame,                  \* the frame the last operation ran, if it ran one
  anchor                  \* per star: a frame it has moved on from, unrecycled

loopVars == <<lastTime, running, rafId, pending>>
viewVars == <<width, height, centerX, centerY, maxDepth, speedMultiplier, trailLength, canvas>>
domVars == <<resizeObserver, mutatedTargetPosition, originalTargetPosition,
             targetPosition, windowListener>>
fixedVars == <<options, fullPage, positionBefore, thrown>>
vars == <<options, fullPage, stars, width, height, centerX, centerY, maxDepth,
          speedMultiplier, trailLength, lastTime, running, rafId, resizeObserver,
          mutatedTargetPosition, originalTargetPosition, canvas, targetPosition,
          windowListener, pending, now, device, positionBefore, thrown, destroyed, lastOp, ticks,
          fresh, frame, anchor>>

\* ----- arithmetic helpers -----------------------------------------------
Min(a, b) == IF a < b THEN a ELSE b
Max(a, b) == IF a > b THEN a ELSE b

\* Fractions num/den with den >= 0; den = 0 is a division by zero (NaN or
\* an infinity), which every comparison answers with false.
Frac(n, d) == [num |-> n, den |-> d]
FAdd(a, b) == Frac(a.num * b.den + b.num * a.den, a.den * b.den)
FSub(a, b) == Frac(a.num * b.den - b.num * a.den, a.den * b.den)
FMul(a, b) == Frac(a.num * b.num, a.den * b.den)
FDiv(a, b) == IF b.num >= 0 THEN Frac(a.num * b.den, a.den * b.num)
                            ELSE Frac(0 - a.num * b.den, 0 - a.den * b.num)
FLess(a, b) == a.den > 0 /\ b.den > 0 /\ a.num * b.den < b.num * a.den
FEq(a, b) == a.den > 0 /\ b.den > 0 /\ a.num * b.den = b.num * a.den

\* function map(value, istart, istop, ostart, ostop)
map(value, istart, istop, ostart, ostop) ==
  FAdd(ostart, FMul(FSub(ostop, ostart),
                    FDiv(FSub(value, istart), FSub(istop, istart))))

\* Math.random() returns a number in [0, 1); the outcomes modelled.
Randoms == {Frac(0, 1), Frac(1, 2)}
\* One resetStar call draws Math.random() for x and for y, and for z when
\* initial is true.
\* A star seeded below depth 1 is recycled by the next frame whatever its
\* x and y, so the seeds of depth 0 modelled are the centre and a corner.
InitialRandoms ==
  [x : Randoms, y : Randoms, z : {Frac(1, 2)}]
    \cup {[x |-> r, y |-> r, z |-> Frac(0, 1)] : r \in Randoms}
RecycleRandoms == [x : Randoms, y : Randoms, z : {Frac(0, 1)}]

\* A pixel or depth fraction as a whole number of 1/Unit.
ToUnits(f) == (f.num * Unit) \div f.den

\* ----- PointPool: createStar / resetStar / initStars ---------------------
\* resetStar without the assignment of pz (line 270).
resetStar_stalePz(star, initial, rnd, w, h, md) ==
  LET z == IF initial THEN ToUnits(FMul(rnd.z, Frac(md, 1))) ELSE md * Unit
  IN  [ x |-> ToUnits(FMul(FSub(FMul(rnd.x, Frac(w, 1)), Frac(w, 2)), Frac(2, 1))),
        y |-> ToUnits(FMul(FSub(FMul(rnd.y, Frac(h, 1)), Frac(h, 2)), Frac(2, 1))),
        z |-> z, pz |-> star.pz ]

\* resetStar(star, initial) with the instance's width, height and maxDepth
\* passed as w, h, md and the Math.random() outcomes as rnd.
resetStar(star, initial, rnd, w, h, md) ==
  LET z == IF initial THEN ToUnits(FMul(rnd.z, Frac(md, 1))) ELSE md * Unit
  IN  [ x  |-> ToUnits(FMul(FSub(FMul(rnd.x, Frac(w, 1)), Frac(w, 2)), Frac(2, 1))),
        y  |-> ToUnits(FMul(FSub(FMul(rnd.y, Frac(h, 1)), Frac(h, 2)), Frac(2, 1))),
        z  |-> z,
        pz |-> z ]

createStar(initial, rnd, w, h, md) ==
  resetStar([x |-> 0, y |-> 0, z |-> 0, pz |-> 0], initial, rnd, w, h, md)

\* initStars runs in the constructor before the first resize(), when
\* width, height and maxDepth are still 0.
initStars(count, rnds) == [i \in 1..count |-> createStar(TRUE, rnds[i], 0, 0, 0)]

\* ----- Projector ---------------------------------------------------------
\* x and z are in 1/Unit, so x / z is the plain ratio; the result is in px.
projectX(x, z) ==
  FAdd(map(Frac(x, z), Frac(0, 1), Frac(1, 1), Frac(0, 1), Frac(width, 2)),
       Frac(centerX, 2))
projectY(y, z) ==
  FAdd(map(Frac(y, z), Frac(0, 1), Frac(1, 1), Frac(0, 1), Frac(height, 2)),
       Frac(centerY, 2))

isOffscreen(sx, sy) ==
  \/ FLess(sx, Frac(0, 1))
  \/ FLess(Frac(width, 1), sx)
  \/ FLess(sy, Frac(0, 1))
  \/ FLess(Frac(height, 1), sy)

\* ----- SimulationStep ----------------------------------------------------
\* The depth a star loses in a frame of scale frameScale, in 1/Unit:
\* options.speed * speedMultiplier * frameScale.
Decrement_defaultSpeed(frameScale) ==
  ToUnits(FMul(Frac(DEFAULTS.speed * speedMultiplier, 100), frameScale))

Decrement(frameScale) ==
  ToUnits(FMul(Frac(options.speed * speedMultiplier, 100), frameScale))

\* updateStar returning true for a star it recycled as offscreen (line 304).
updateStar_drawRecycled(star, frameScale, rnd) ==
  LET z == star.z - Decrement(frameScale)
      moved == [star EXCEPT !.z = z]
  IN  IF z < 1 * Unit
      THEN [star |-> resetStar(moved, FALSE, rnd, width, height, maxDepth),
            draw |-> FALSE, reset |-> TRUE, projected |-> {}]
      ELSE IF isOffscreen(projectX(star.x, z), projectY(star.y, z))
           THEN [star |-> resetStar(moved, FALSE, rnd, width, height, maxDepth),
                 draw |-> TRUE, reset |-> TRUE, projected |-> {z}]
           ELSE [star |-> moved, draw |-> TRUE, reset |-> FALSE, projected |-> {z}]

\* updateStar with the projection (lines 299-300) done before the depth
\* test (line 294).
updateStar_projectFirst(star, frameScale, rnd) ==
  LET z == star.z - Decrement(frameScale)
      moved == [star EXCEPT !.z = z]
  IN  IF z < 1 * Unit
      THEN [star |-> resetStar(moved, FALSE, rnd, width, height, maxDepth),
            draw |-> FALSE, reset |-> TRUE, projected |-> {z}]
      ELSE IF isOffscreen(projectX(star.x, z), projectY(star.y, z))
           THEN [star |-> resetStar(moved, FALSE, rnd, width, height, maxDepth),
                 draw |-> FALSE, reset |-> TRUE, projected |-> {z}]
           ELSE [star |-> moved, draw |-> TRUE, reset |-> FALSE, projected |-> {z}]

\* updateStar(star, frameScale, rnd): the star after the update, whether it
\* is to be drawn (the function's return value), whether resetStar ran, and
\* the depths it passed to projectX/projectY.
updateStar(star, frameScale, rnd) ==
  LET z == star.z - Decrement(frameScale)
      moved == [star EXCEPT !.z = z]
  IN  IF z < 1 * Unit
      THEN [star |-> resetStar(moved, FALSE, rnd, width, height, maxDepth),
            draw |-> FALSE, reset |-> TRUE, projected |-> {}]
      ELSE IF isOffscreen(projectX(star.x, z), projectY(star.y, z))
           THEN [star |-> resetStar(moved, FALSE, rnd, width, height, maxDepth),
                 draw |-> FALSE, reset |-> TRUE, projected |-> {z}]
           ELSE [star |-> moved, draw |-> TRUE, reset |-> FALSE, projected |-> {z}]

\* drawStar without the assignment of pz (line 330).
drawStar_keepPz(star) ==
  LET trailZ == Min(maxDepth * Unit, star.pz + trailLength)
  IN  [ star |-> star,
        seg  |-> [ sx |-> projectX(star.x, star.z), sy |-> projectY(star.y, star.z),
                   px |-> projectX(star.x, trailZ), py |-> projectY(star.y, trailZ),
                   z |-> star.z, trailZ |-> trailZ ] ]

\* drawStar without the Math.min of line 318.
drawStar_noClamp(star) ==
  LET trailZ == star.pz + trailLength
  IN  [ star |-> [star EXCEPT !.pz = star.z],
        seg  |-> [ sx |-> projectX(star.x, star.z), sy |-> projectY(star.y, star.z),
                   px |-> projectX(star.x, trailZ), py |-> projectY(star.y, trailZ),
                   z |-> star.z, trailZ |-> trailZ ] ]

\* drawStar(star): the stroked segment (from the trail point to the
\* current point) and the star with pz updated.
drawStar(star) ==
  LET trailZ == Min(maxDepth * Unit, star.pz + trailLength)
  IN  [ star |-> [star EXCEPT !.pz = star.z],
        seg  |-> [ sx |-> projectX(star.x, star.z), sy |-> projectY(star.y, star.z),
                   px |-> projectX(star.x, trailZ), py |-> projectY(star.y, trailZ),
                   z |-> star.z, trailZ |-> trailZ ] ]

\* ----- ViewportState: isMobileViewport / getDpr / resize -----------------
\* What isMobileViewport reads from the platform: window.innerWidth,
\* window.innerHeight and matchMedia("(pointer: coarse)").matches.
Window(e) == [innerWidth |-> e.innerWidth, innerHeight |-> e.innerHeight,
              coarse |-> e.coarse]

\* isMobileViewport() without the pointer test (line 229).
isMobileViewport_noCoarse(e) ==
  Min(e.innerWidth, e.innerHeight) < options.mobileBreakpoint

\* isMobileViewport(): lines 228-231.
isMobileViewport(e) ==
  e.coarse \/ Min(e.innerWidth, e.innerHeight) < options.mobileBreakpoint

\* devicePixelRatio in halves, capped by options.dprCap.
getDpr(e) ==
  IF options.dprCap > 0 THEN Min(e.dpr, options.dprCap * 2) ELSE e.dpr

\* The metrics resize() computes from the platform's answers e.
Metrics(e) ==
  LET w == IF fullPage THEN e.innerWidth ELSE Max(1, e.rectWidth \div 2)
      h == IF fullPage THEN e.innerHeight ELSE Max(1, e.rectHeight \div 2)
      mobile == isMobileViewport(e)
      dpr == getDpr(e)
  IN  [ width |-> w, height |-> h, centerX |-> w, centerY |-> h,
        maxDepth |-> Max(w, h),
        speedMultiplier |-> IF mobile THEN options.mobileSpeedMultiplier
                                      ELSE options.desktopSpeedMultiplier,
        trailLength |-> (options.trailLength * Unit *
                          (IF mobile THEN options.mobileTrailMultiplier
                                     ELSE options.desktopTrailMultiplier)) \div 100,
        canvasWidth |-> (w * dpr) \div 2, canvasHeight |-> (h * dpr) \div 2,
        scale |-> dpr ]

\* ----- platform: requestAnimationFrame -----------------------------------
\* A handle that is neither scheduled nor held in rafId.
FreshHandle(queue) ==
  CHOOSE h \in 1..(Cardinality(queue) + 2) : h \notin queue /\ h # rafId

NoFrame ==
  [ timestamp |-> 0 - 1, previous |-> 0 - 1, deltaMs |-> 0, first |-> FALSE,
    before |-> <<>>, drawn |-> <<>>, recycled |-> <<>>, segs |-> <<>>,
    depths |-> <<>> ]
NoAnchor == [valid |-> FALSE, t |-> 0, z |-> 0]

\* ----- Engine: start / stop / resize / destroy ---------------------------
\* start() without its guard (lines 407-409).
startBody_noGuard ==
  /\ running' = TRUE
  /\ lastTime' = 0
  /\ rafId' = FreshHandle(pending)
  /\ pending' = pending \cup {FreshHandle(pending)}
  /\ fresh' = TRUE
  /\ anchor' = [i \in 1..Len(stars) |-> NoAnchor]

\* start() without the reset of lastTime (line 411).
startBody_keepLastTime ==
  IF running
  THEN UNCHANGED <<loopVars, fresh, anchor>>
  ELSE /\ running' = TRUE
       /\ UNCHANGED lastTime
       /\ rafId' = FreshHandle(pending)
       /\ pending' = pending \cup {FreshHandle(pending)}
       /\ fresh' = TRUE
       /\ anchor' = [i \in 1..Len(stars) |-> NoAnchor]

\* The body of start(): lines 407-412.
startBody ==
  IF running
  THEN UNCHANGED <<loopVars, fresh, anchor>>
  ELSE /\ running' = TRUE
       /\ lastTime' = 0
       /\ rafId' = FreshHandle(pending)
       /\ pending' = pending \cup {FreshHandle(pending)}
       /\ fresh' = TRUE
       /\ anchor' = [i \in 1..Len(stars) |-> NoAnchor]

start ==
  /\ thrown = "none"
  /\ startBody
  /\ lastOp' = "start"
  /\ frame' = NoFrame
  /\ UNCHANGED <<fixedVars, device, stars, viewVars, domVars, now, destroyed, ticks>>

\* The body of stop(): lines 417-424.
stopBody ==
  IF ~running
  THEN UNCHANGED <<loopVars, anchor>>
  ELSE /\ running' = FALSE
       /\ IF rafId # Null
          THEN pending' = pending \ {rafId} /\ rafId' = Null
          ELSE UNCHANGED <<pending, rafId>>
       /\ UNCHANGED lastTime
       /\ anchor' = [i \in 1..Len(stars) |-> NoAnchor]

stop ==
  /\ thrown = "none"
  /\ stopBody
  /\ lastOp' = "stop"
  /\ frame' = NoFrame
  /\ UNCHANGED <<fixedVars, device, stars, viewVars, domVars, now, destroyed, ticks, fresh>>

\* resize() without the reseed loop (lines 365-367).
resizeBody_noReseed(e, rnds) ==
  LET m == Metrics(e)
  IN  /\ width' = m.width
      /\ height' = m.height
      /\ centerX' = m.centerX
      /\ centerY' = m.centerY
      /\ maxDepth' = m.maxDepth
      /\ speedMultiplier' = m.speedMultiplier
      /\ trailLength' = m.trailLength
      /\ canvas' = [canvas EXCEPT !.width = m.canvasWidth, !.height = m.canvasHeight,
                                  !.scale = m.scale]
      /\ UNCHANGED stars

\* The body of resize() with the platform's answers e and the
\* Math.random() outcomes rnds of the reseed loop.
resizeBody(e, rnds) ==
  LET m == Metrics(e)
  IN  /\ width' = m.width
      /\ height' = m.height
      /\ centerX' = m.centerX
      /\ centerY' = m.centerY
      /\ maxDepth' = m.maxDepth
      /\ speedMultiplier' = m.speedMultiplier
      /\ trailLength' = m.trailLength
      /\ canvas' = [canvas EXCEPT !.width = m.canvasWidth, !.height = m.canvasHeight,
                                  !.scale = m.scale]
      /\ stars' = [i \in 1..Len(stars) |->
                     resetStar(stars[i], TRUE, rnds[i], m.width, m.height, m.maxDepth)]

\* A resize() that also resets the frame clock (lastTime = 0, as start()
\* does at line 411).
resize_resetsClock ==
  \E e \in Envs, rnds \in [1..Len(stars) -> InitialRandoms] :
    /\ thrown = "none"
    /\ resizeBody(e, rnds)
    /\ device' = Window(e)
    /\ anchor' = [i \in 1..Len(stars) |-> NoAnchor]
    /\ lastOp' = "resize"
    /\ frame' = NoFrame
    /\ lastTime' = 0
    /\ UNCHANGED <<fixedVars, running, rafId, pending, domVars, now, destroyed,
                   ticks, fresh>>

\* resize(): lines 337-368.  It assigns none of running, lastTime, rafId and
\* calls neither requestAnimationFrame nor cancelAnimationFrame.
resize ==
  \E e \in Envs, rnds \in [1..Len(stars) -> InitialRandoms] :
    /\ thrown = "none"
    /\ resizeBody(e, rnds)
    /\ device' = Window(e)
    /\ anchor' = [i \in 1..Len(stars) |-> NoAnchor]
    /\ lastOp' = "resize"
    /\ frame' = NoFrame
    /\ UNCHANGED <<fixedVars, loopVars, domVars, now, destroyed, ticks, fresh>>

\* detachListeners() without the disconnect of the observer (lines 216-219).
detachListeners_keepObserver ==
  /\ windowListener' = FALSE
  /\ UNCHANGED resizeObserver

\* The body of detachListeners().
detachListeners ==
  /\ windowListener' = FALSE
  /\ resizeObserver' = FALSE

destroy ==
  /\ thrown = "none"
  /\ stopBody
  /\ detachListeners
  /\ canvas' = IF canvas.parentNode THEN [canvas EXCEPT !.parentNode = FALSE] ELSE canvas
  /\ IF mutatedTargetPosition
     THEN targetPosition' = originalTargetPosition /\ mutatedTargetPosition' = FALSE
     ELSE UNCHANGED <<targetPosition, mutatedTargetPosition>>
  /\ destroyed' = TRUE
  /\ lastOp' = "destroy"
  /\ UNCHANGED <<fixedVars, device, stars, width, height, centerX, centerY, maxDepth,
                 speedMultiplier, trailLength, originalTargetPosition, now, ticks,
                 fresh>>
  /\ frame' = NoFrame

\* ----- AnimationLoop: animate --------------------------------------------
NoSeg ==
  [ sx |-> Frac(0, 1), sy |-> Frac(0, 1), px |-> Frac(0, 1), py |-> Frac(0, 1),
    z |-> 0, trailZ |-> 0 ]

\* animate, lines 388-393: the loop over this.stars, for the first n stars:
\* what updateStar returned for each and, for those it returned true for,
\* what drawStar did.
RECURSIVE starLoop(_, _, _)
starLoop(frameScale, rnds, n) ==
  IF n = 0 THEN <<>>
  ELSE LET upd == updateStar(stars[n], frameScale, rnds[n])
           drw == IF upd.draw THEN drawStar(upd.star)
                              ELSE [star |-> upd.star, seg |-> NoSeg]
       IN  Append(starLoop(frameScale, rnds, n - 1),
                  [ star |-> drw.star, seg |-> drw.seg, draw |-> upd.draw,
                    reset |-> upd.reset,
                    depths |-> upd.projected \cup
                                 (IF upd.draw THEN {drw.seg.z, drw.seg.trailZ}
                                              ELSE {}) ])

\* animate, lines 379-402: the frame that runs when the loop is running.
\* queue is what the platform still has scheduled once this callback has
\* been taken off its list.
runFrame(timestamp, queue) ==
  LET last == IF lastTime = 0 THEN timestamp ELSE lastTime
      deltaMs == Min(64, timestamp - last)
      frameScale == FDiv(Frac(deltaMs, 1), FDiv(Frac(1000, 1), Frac(60, 1)))
      previous == IF fresh THEN 0 - 1 ELSE now
  IN  \E rnds \in [1..Len(stars) -> RecycleRandoms] :
        LET done == starLoop(frameScale, rnds, Len(stars))
        IN  /\ stars' = [i \in 1..Len(stars) |-> done[i].star]
            /\ lastTime' = timestamp
            /\ rafId' = FreshHandle(queue)
            /\ pending' = queue \cup {FreshHandle(queue)}
            /\ UNCHANGED running
            /\ now' = timestamp
            /\ ticks' = ticks + 1
            /\ fresh' = FALSE
            /\ frame' = [ timestamp |-> timestamp, previous |-> previous,
                          deltaMs |-> deltaMs, first |-> fresh,
                          before |-> stars,
                          drawn |-> [i \in 1..Len(stars) |-> done[i].draw],
                          recycled |-> [i \in 1..Len(stars) |-> done[i].reset],
                          segs |-> [i \in 1..Len(stars) |-> done[i].seg],
                          depths |-> [i \in 1..Len(stars) |-> done[i].depths] ]
            /\ anchor' = [i \in 1..Len(stars) |->
                            IF done[i].reset THEN NoAnchor
                            ELSE IF /\ anchor[i].valid
                                    /\ previous >= 0
                                    /\ timestamp - previous <= 64
                                 THEN anchor[i]
                                 ELSE [valid |-> TRUE, t |-> timestamp,
                                       z |-> done[i].star.z]]

\* animate, lines 375-377: the early return when the loop is not running.
skipFrame(queue) ==
  /\ pending' = queue
  /\ frame' = NoFrame
  /\ UNCHANGED <<lastTime, running, rafId, stars, now, ticks, fresh, anchor>>

animate_unguarded(timestamp, queue) == runFrame(timestamp, queue)

\* animate(timestamp)
animate(timestamp, queue) ==
  IF ~running THEN skipFrame(queue) ELSE runFrame(timestamp, queue)

\* The timestamps the platform may give the next frame.
NextTimestamps ==
  IF now < 0 THEN FirstTimestamps ELSE {now + gap : gap \in Gaps}

\* The platform runs a scheduled frame callback.
Tick ==
  \E h \in pending, t \in NextTimestamps :
    /\ thrown = "none"
    /\ running => ticks < MaxTicks
    /\ animate(t, pending \ {h})
    /\ lastOp' = "animate"
    /\ UNCHANGED <<fixedVars, device, viewVars, domVars, destroyed>>

\* A frame callback that runs although the loop is stopped: the case the
\* guard of lines 375-377 is there for.
LateAnimate ==
  \E t \in NextTimestamps :
    /\ thrown = "none"
    /\ ~running
    /\ animate(t, pending)
    /\ lastOp' = "animate"
    /\ UNCHANGED <<fixedVars, device, viewVars, domVars, destroyed>>

\* ----- construction ------------------------------------------------------
\* resolveTarget (lines 79-95): the element, or the error thrown.
resolveTarget(target) ==
  IF target = "body" THEN [element |-> "body", error |-> "none"]
  ELSE IF target = "#missing"
       THEN [element |-> "", error |-> "target selector was not found"]
  ELSE IF target = "element" THEN [element |-> "element", error |-> "none"]
  ELSE [element |-> "", error |-> "target must be an Element or selector string"]

\* The error the constructor throws: resolveTarget's at line 103, or the
\* missing 2D context's at lines 119-121.
ConstructorError(o, pg) ==
  IF resolveTarget(o.target).error # "none" THEN resolveTarget(o.target).error
  ELSE IF ~pg.context2d THEN "failed to get 2D context"
  ELSE "none"

\* A constructor that tests the context only after lines 147-155.
SetupRuns_beforeContextCheck(o, pg) == resolveTarget(o.target).error = "none"

\* Whether the constructor gets to lines 147-155 (applyCanvasStyles,
\* mountCanvas, initStars, resize, attachListeners, autostart): both throws
\* stand before them.
SetupRuns(o, pg) == resolveTarget(o.target).error = "none" /\ pg.context2d

\* The autostart of lines 153-155, always taken.
autostartRuns_always(opts) == TRUE

\* Lines 153-155: the constructor calls start() when options.autostart.
autostartRuns(opts) == opts.autostart

\* The state new Starfield(o) leaves behind, on page pg, with the platform
\* answering e to the constructor's resize().
Init ==
  \E c \in Constructions :
  \E e \in Envs, rnds \in [1..c.o.starCount -> InitialRandoms] :
   LET o == c.o
       pg == c.pg
       built == SetupRuns(o, pg)
   IN
    /\ options = [ target |-> o.target,
                   fullPage |-> IF o.fullPage = "unset" THEN DEFAULTS.fullPage
                                                        ELSE o.fullPage = "true",
                   autostart |-> o.autostart, starCount |-> o.starCount,
                   speed |-> o.speed,
                   trailLength |-> DEFAULTS.trailLength,
                   mobileSpeedMultiplier |-> DEFAULTS.mobileSpeedMultiplier,
                   desktopSpeedMultiplier |-> DEFAULTS.desktopSpeedMultiplier,
                   mobileTrailMultiplier |-> DEFAULTS.mobileTrailMultiplier,
                   desktopTrailMultiplier |-> DEFAULTS.desktopTrailMultiplier,
                   mobileBreakpoint |-> DEFAULTS.mobileBreakpoint,
                   dprCap |-> DEFAULTS.dprCap,
                   fullPageGiven |-> o.fullPage # "unset" ]
    /\ thrown = ConstructorError(o, pg)
    /\ fullPage = IF resolveTarget(o.target).error # "none" THEN FALSE
                  ELSE IF o.fullPage # "unset" THEN o.fullPage = "true"
                  ELSE resolveTarget(o.target).element = "body"
    /\ positionBefore = pg.inline
    \* applyCanvasStyles
    /\ mutatedTargetPosition = (built /\ ~fullPage /\ pg.computed = "static")
    /\ originalTargetPosition = IF mutatedTargetPosition THEN pg.inline ELSE ""
    /\ targetPosition = IF mutatedTargetPosition THEN "relative" ELSE pg.inline
    \* initStars, then resize
    /\ IF built
       THEN LET m == Metrics(e)
                pool == initStars(options.starCount, rnds)
            IN  /\ width = m.width
                /\ height = m.height
                /\ centerX = m.centerX
                /\ centerY = m.centerY
                /\ maxDepth = m.maxDepth
                /\ speedMultiplier = m.speedMultiplier
                /\ trailLength = m.trailLength
                \* mountCanvas
                /\ canvas = [width |-> m.canvasWidth, height |-> m.canvasHeight,
                             scale |-> m.scale, parentNode |-> TRUE]
                /\ stars = [i \in 1..Len(pool) |->
                              resetStar(pool[i], TRUE, rnds[i], m.width, m.height,
                                        m.maxDepth)]
                /\ device = Window(e)
       ELSE \* lines 124-131, and a canvas that is created but not mounted
            /\ width = 0
            /\ height = 0
            /\ centerX = 0
            /\ centerY = 0
            /\ maxDepth = 0
            /\ speedMultiplier = options.desktopSpeedMultiplier
            /\ trailLength = (options.trailLength * Unit
                                * options.desktopTrailMultiplier) \div 100
            /\ canvas = [width |-> 300, height |-> 150, scale |-> 2,
                         parentNode |-> FALSE]
            /\ stars = <<>>
            /\ device = [innerWidth |-> 0, innerHeight |-> 0, coarse |-> FALSE]
    \* attachListeners
    /\ windowListener = built
    /\ resizeObserver = (built /\ ~fullPage /\ pg.hasResizeObserver)
    \* autostart
    /\ running = (built /\ autostartRuns(options))
    /\ lastTime = 0
    /\ rafId = IF running THEN 1 ELSE Null
    /\ pending = IF running THEN {1} ELSE {}
    /\ now = 0 - 1
    /\ destroyed = FALSE
    /\ lastOp = "new"
    /\ ticks = 0
    /\ fresh = running
    /\ frame = NoFrame
    /\ anchor = [i \in 1..Len(stars) |-> NoAnchor]

Next ==
  \/ start
  \/ stop
  \/ resize
  \/ destroy
  \/ Tick
  \/ LateAnimate

Spec == Init /\ [][Next]_vars

\* ======================= properties ======================================
\* What the instance and the platform hold: everything but the history.
progVars == <<options, fullPage, stars, viewVars, loopVars, domVars>>

\* The last operation was a frame callback that ran a frame.
FrameDone == lastOp = "animate" /\ frame.timestamp >= 0

\* C1: start() is idempotent.  A start() called while the loop is running
\* changes nothing of the instance and schedules nothing; after every
\* start() the loop is running with exactly one frame callback scheduled;
\* and in every reachable state at most one frame callback is scheduled.
C1_StartIdempotent ==
  /\ [](Cardinality(pending) <= 1)
  /\ [](lastOp = "start" => running /\ Cardinality(pending) = 1)
  /\ [][(running /\ lastOp' = "start") => UNCHANGED progVars]_vars

\* start() was called while the loop was running and had run frames.
C1_Witness ==
  lastOp = "start" /\ running /\ ~fresh /\ ticks > 0 /\ Cardinality(pending) = 1

\* C2: while the loop is stopped, no operation but start() schedules a
\* frame callback; a frame callback that still runs changes neither the
\* stars, lastTime, rafId, running nor what is scheduled, and runs no frame
\* (nothing is drawn); stop() on a stopped loop changes nothing.
C2_StoppedIsQuiet ==
  [][ /\ (lastOp' = "stop") => (~running' /\ pending' \subseteq pending)
      /\ (~running /\ lastOp' # "start") => (~running' /\ pending' \subseteq pending)
      /\ (~running /\ lastOp' = "animate") =>
            (UNCHANGED <<progVars, ticks>> /\ frame' = NoFrame)
      /\ (~running /\ lastOp' = "stop") => UNCHANGED progVars ]_vars

\* A frame callback ran after the loop, which had run frames, was stopped.
C2_Witness ==
  lastOp = "animate" /\ ~running /\ ticks > 0 /\ ~destroyed

\* C3 (as claimed): once destroy() has been called, no operation sets
\* running, schedules a frame callback or changes the stars or the viewport
\* metrics.
C3_InertAfterDestroy ==
  [][destroyed => (~running' /\ pending' \subseteq pending
                   /\ UNCHANGED <<stars, viewVars>>)]_vars

\* C4: right after destroy() no frame callback is scheduled, the loop is
\* stopped, the window listener and the resize observer are unsubscribed,
\* the canvas is detached and the target's inline position is what it was
\* before construction.
C4_DestroyReleases ==
  lastOp = "destroy" =>
    /\ pending = {}
    /\ ~running
    /\ ~windowListener
    /\ ~resizeObserver
    /\ ~canvas.parentNode
    /\ targetPosition = positionBefore

\* destroy() ran on a container-mode instance whose target's position the
\* constructor had changed, after the loop had run frames.
C4_Witness ==
  /\ lastOp = "destroy"
  /\ ~fullPage
  /\ positionBefore = "static"
  /\ targetPosition = "static"
  /\ ticks > 0

\* C5 (as claimed): after every frame, every star has 0 < z <= maxDepth.
C5_DepthInRange ==
  FrameDone =>
    \A i \in 1..Len(stars) : 0 < stars[i].z /\ stars[i].z <= maxDepth * Unit

\* C6 (as claimed): a star that has not been recycled since the frame at
\* anchor.t, with no gap above 64 ms between consecutive frames since, has
\* lost speed * speedMultiplier * (now - anchor.t) / (1000 / 60) of depth.
C6_FrameRateIndependent ==
  \A i \in 1..Len(stars) :
    anchor[i].valid =>
      anchor[i].z - stars[i].z =
        Decrement(FDiv(Frac(now - anchor[i].t, 1), FDiv(Frac(1000, 1), Frac(60, 1))))

\* C7 (as claimed): a frame that is not the first since start() computes
\* deltaMs = min(64, timestamp - timestamp of the previous frame).
C7_DeltaClamped ==
  (FrameDone /\ ~frame.first) =>
    /\ frame.deltaMs = Min(64, frame.timestamp - frame.previous)
    /\ frame.deltaMs >= 0
    /\ frame.deltaMs <= 64

\* C8: the first frame after every start() computes deltaMs = 0, and a
\* star it draws keeps the depth it entered the frame with.
C8_FirstFrameNoMotion ==
  (FrameDone /\ frame.first) =>
    /\ frame.deltaMs = 0
    /\ \A i \in 1..Len(stars) : frame.drawn[i] => stars[i].z = frame.before[i].z

\* The first frame after a resume, 5000 ms or more after the frame before.
C8_Witness ==
  /\ FrameDone
  /\ frame.first
  /\ ticks = 2
  /\ frame.timestamp >= 5000
  /\ \E i \in 1..Len(stars) : frame.drawn[i]

\* The star i entered the last frame such that the frame must recycle it:
\* its depth after the decrement is below 1 or its projection is offscreen.
MustRecycle(i) ==
  LET b == frame.before[i]
      z == b.z - Decrement(FDiv(Frac(frame.deltaMs, 1),
                                FDiv(Frac(1000, 1), Frac(60, 1))))
  IN  z < Unit \/ isOffscreen(projectX(b.x, z), projectY(b.y, z))

\* C9: a star recycled in a frame is not drawn in that frame and leaves it
\* with z = pz = maxDepth; a star whose depth after the decrement is below
\* 1, or that projects offscreen, is recycled.
C9_RecycledNotDrawn ==
  FrameDone =>
    \A i \in 1..Len(stars) :
      /\ MustRecycle(i) => frame.recycled[i]
      /\ frame.recycled[i] =>
           /\ ~frame.drawn[i]
           /\ stars[i].z = maxDepth * Unit
           /\ stars[i].pz = maxDepth * Unit

\* A star entered a frame with z = 0.5 and was recycled.
C9_Witness ==
  /\ FrameDone
  /\ \E i \in 1..Len(stars) :
       /\ 2 * frame.before[i].z = Unit
       /\ frame.recycled[i]
       /\ ~frame.drawn[i]
       /\ stars[i].z = maxDepth * Unit

\* C10: in every state a frame can start from, centerX = width / 2,
\* centerY = height / 2, maxDepth = max(width, height) and no star is
\* deeper than maxDepth; container bounds 800 x 600 give maxDepth 800 and
\* the centre (400, 300).
C10_ViewportConsistent ==
  /\ centerX = width               \* half pixels
  /\ centerY = height
  /\ maxDepth = Max(width, height)
  /\ \A i \in 1..Len(stars) : stars[i].z <= maxDepth * Unit
  /\ (~fullPage /\ width = 800 /\ height = 600) =>
        (maxDepth = 800 /\ centerX = 2 * 400 /\ centerY = 2 * 300)

\* resize() gave a running container-mode instance the bounds 800 x 600.
C10_Witness ==
  /\ lastOp = "resize"
  /\ ~fullPage
  /\ width = 800
  /\ height = 600
  /\ running
  /\ ticks > 0

\* The multipliers resize() derives for a device class (lines 353-357).
SpeedFor(mobile) ==
  IF mobile THEN options.mobileSpeedMultiplier ELSE options.desktopSpeedMultiplier
TrailFor(mobile) ==
  (options.trailLength * Unit *
     (IF mobile THEN options.mobileTrailMultiplier
                ELSE options.desktopTrailMultiplier)) \div 100

\* C11 (as claimed): the view resize() left is mobile exactly when the
\* pointer is coarse or the smaller side of the width and height it has
\* just computed (the container's in container mode) is below
\* mobileBreakpoint, and the multipliers are those of that class.
C11_MobileByViewportState ==
  LET mobile == device.coarse \/ Min(width, height) < options.mobileBreakpoint
  IN  thrown = "none" =>
        (speedMultiplier = SpeedFor(mobile) /\ trailLength = TrailFor(mobile))

\* C11 (amended): the view resize() left is mobile exactly when the pointer
\* is coarse or the smaller side of the window (innerWidth, innerHeight) is
\* below mobileBreakpoint, in container mode as in full-page mode; a
\* 500x800 window with breakpoint 900 is mobile.
C11_MobileByWindow ==
  LET mobile == \/ device.coarse
                \/ Min(device.innerWidth, device.innerHeight) < options.mobileBreakpoint
  IN  thrown = "none" =>
        /\ speedMultiplier = SpeedFor(mobile)
        /\ trailLength = TrailFor(mobile)
        /\ (device.innerWidth = 500 /\ device.innerHeight = 800
               /\ options.mobileBreakpoint = 900)
             => speedMultiplier = options.mobileSpeedMultiplier

\* A resize with a coarse pointer in a window no side of which is below
\* the breakpoint: mobile by the pointer alone.
C11_Witness ==
  /\ lastOp = "resize"
  /\ device.coarse
  /\ Min(device.innerWidth, device.innerHeight) >= options.mobileBreakpoint
  /\ speedMultiplier = options.mobileSpeedMultiplier
  /\ ticks > 0

\* C12: when the constructor throws (selector not found, target neither an
\* element nor a selector, no 2D context), nothing has been changed: the
\* canvas is not mounted, no listener or observer is subscribed, the
\* target's position style is what it was, and no frame is scheduled.
C12_ThrowsBeforeMutation ==
  thrown # "none" =>
    /\ ~canvas.parentNode
    /\ ~windowListener
    /\ ~resizeObserver
    /\ targetPosition = positionBefore
    /\ ~mutatedTargetPosition
    /\ pending = {}
    /\ ~running
    /\ rafId = Null

\* The constructor threw for want of a 2D context, on a container target
\* whose position style it would otherwise have rewritten.
C12_Witness ==
  /\ thrown = "failed to get 2D context"
  /\ options.target = "element"
  /\ ~fullPage
  /\ positionBefore = ""
  /\ targetPosition = ""
  /\ ~canvas.parentNode

\* C13 (as claimed): when the caller does not supply fullPage, the instance
\* is in full-page mode (the default, fullPage = true) whatever the target,
\* a container element included.
C13_DefaultFullPage ==
  (thrown = "none" /\ ~options.fullPageGiven) =>
    (fullPage = DEFAULTS.fullPage /\ fullPage = options.fullPage)

\* start() has not been called on an instance constructed with
\* autostart = false: no frame has run and none is awaited.
NotYetStarted == thrown = "none" /\ ~options.autostart /\ ~fresh /\ ticks = 0

\* C14: a constructor that returns with autostart = true leaves the instance
\* running with exactly one frame callback pending; with autostart = false
\* it leaves it stopped with none pending, and until start() is called it
\* stays so and no star changes, except by resize().
C14_Autostart ==
  /\ []((lastOp = "new" /\ thrown = "none") =>
          IF options.autostart
          THEN running /\ Cardinality(pending) = 1 /\ rafId \in pending
          ELSE ~running /\ pending = {} /\ rafId = Null)
  /\ [](NotYetStarted => (~running /\ pending = {}))
  /\ [][(NotYetStarted /\ lastOp' \notin {"start", "resize"})
          => UNCHANGED stars]_vars

\* stop() called on an instance constructed with autostart = false, before
\* any start().
C14_Witness ==
  /\ NotYetStarted
  /\ lastOp = "stop"
  /\ Len(stars) = 1
  /\ ~running
  /\ pending = {}

\* The star i entered the last frame at x = 0, y = 0 in an engine of speed 0.
StillAtCentre(i) ==
  /\ FrameDone
  /\ options.starCount = 1
  /\ options.speed = 0
  /\ frame.before[i].x = 0
  /\ frame.before[i].y = 0

\* The frame left star i where it was and drew it at the centre of the view.
DrawnAtCentre(i) ==
  /\ ~frame.recycled[i]
  /\ frame.drawn[i]
  /\ stars[i].x = 0
  /\ stars[i].y = 0
  /\ stars[i].z = frame.before[i].z
  /\ FEq(frame.segs[i].sx, Frac(centerX, 2))
  /\ FEq(frame.segs[i].sy, Frac(centerY, 2))

\* C15 (as claimed): with starCount = 1 and speed = 0, a star at x = 0,
\* y = 0 is, whatever depth the seeding gave it, never recycled and never
\* offscreen: every frame draws it at the same screen point, the centre of
\* the view.  (Stated for views of maxDepth >= 1, the ones a viewport of
\* at least one pixel gives.)
C15_CentreStarStays ==
  \A i \in 1..Len(stars) :
    (StillAtCentre(i) /\ maxDepth >= 1) => DrawnAtCentre(i)

\* C15 (amended): with starCount = 1 and speed = 0, a star at x = 0, y = 0
\* whose depth is at least 1 is never recycled and never offscreen: every
\* frame leaves its depth as it was and draws it at the centre of the view.
C15_CentreStarStaysFromDepthOne ==
  \A i \in 1..Len(stars) :
    (StillAtCentre(i) /\ frame.before[i].z >= 1 * Unit) => DrawnAtCentre(i)

\* The second frame of a run, with time elapsed, drew such a star.
C15_Witness ==
  /\ ticks = 2
  /\ frame.deltaMs > 0
  /\ \E i \in 1..Len(stars) :
       /\ StillAtCentre(i)
       /\ frame.before[i].z >= 1 * Unit
       /\ frame.drawn[i]

\* C16: the pool initStars builds, the pool the constructor leaves and the
\* pool every resize() leaves have pz = z in every star.
C16_SeededPzEqualsZ ==
  /\ \A rnds \in [1..1 -> InitialRandoms] :
       initStars(1, rnds)[1].pz = initStars(1, rnds)[1].z
  /\ (thrown = "none" /\ lastOp \in {"new", "resize"}) =>
       \A i \in 1..Len(stars) : stars[i].pz = stars[i].z

\* A resize() that reseeded, to a depth other than 0, a star that frames
\* had moved.
C16_Witness ==
  /\ lastOp = "resize"
  /\ ticks = 2
  /\ \E i \in 1..Len(stars) : stars[i].z > 0 /\ stars[i].pz = stars[i].z

\* C17 (as claimed): in every view the instance holds, projectX(0, maxDepth)
\* is centerX and projectY(0, maxDepth) is centerY.
C17_ProjectionExact ==
  thrown = "none" =>
    /\ FEq(projectX(0, maxDepth * Unit), Frac(centerX, 2))
    /\ FEq(projectY(0, maxDepth * Unit), Frac(centerY, 2))

C19_NoProjectionBelowOne ==
  FrameDone =>
    \A i \in 1..Len(stars) :
      \A d \in frame.depths[i] : d >= 1 * Unit

\* The first frame after a seeding that gave a star depth 0: the star is
\* recycled and nothing is projected for it.
C19_Witness ==
  /\ FrameDone
  /\ frame.first
  /\ \E i \in 1..Len(stars) :
       /\ frame.before[i].z = 0
       /\ maxDepth >= 1
       /\ frame.recycled[i]
       /\ frame.depths[i] = {}

\* C20: between frames (after the constructor, after resize(), after every
\* frame and after any other call) every star has pz = z; a frame leaves a
\* star it recycled at pz = z = maxDepth, and the trail of a star it drew
\* starts from the depth the star had when the frame began.
C20_PzEqualsZBetweenFrames ==
  thrown = "none" =>
    /\ \A i \in 1..Len(stars) : stars[i].pz = stars[i].z
    /\ FrameDone =>
         \A i \in 1..Len(stars) :
           /\ frame.before[i].pz = frame.before[i].z
           /\ frame.recycled[i] => stars[i].pz = maxDepth * Unit
           /\ frame.drawn[i] =>
                frame.segs[i].trailZ
                  = Min(maxDepth * Unit, frame.before[i].z + trailLength)

\* A frame that moved a star and drew it.
C20_Witness ==
  /\ FrameDone
  /\ \E i \in 1..Len(stars) :
       /\ frame.drawn[i]
       /\ stars[i].z < frame.before[i].z
       /\ stars[i].pz = stars[i].z

\* C21: resize(), called running or stopped and between any two frames,
\* leaves running, lastTime, rafId and the scheduled frame callbacks as they
\* were, and the pool keeps its starCount stars.
C21_ResizeKeepsLoopState ==
  [][lastOp' = "resize" =>
       /\ UNCHANGED <<running, lastTime, rafId, pending>>
       /\ Len(stars') = options.starCount
       /\ Len(stars') = Len(stars)]_vars

\* A resize() between two frames of a running loop whose clock is set.
C21_Witness ==
  /\ lastOp = "resize"
  /\ running
  /\ lastTime > 0
  /\ rafId \in pending
  /\ Cardinality(pending) = 1
  /\ Len(stars) = options.starCount
====
